---- MODULE Spec2Model ----
(***************************************************************************)
(* A model of slice_queue::SliceQueue<T> (src/src/queue.rs), of the        *)
(* helpers in src/src/mem.rs it is built on, and of the single-file        *)
(* implementation of the same queue in src/src/lib.rs.                     *)
(*                                                                         *)
(* A queue is the record                                                   *)
(*   [backing, capacity, limit, auto_shrink_mode]                          *)
(* where backing is the sequence of live elements of the Vec<T>, and       *)
(* capacity is Vec::capacity().  Every method is an operator from the      *)
(* queue (and its arguments) to the queue afterwards and the value the     *)
(* method returns; the actions apply the operators to the state.           *)
(***************************************************************************)
EXTENDS Integers, Sequences, FiniteSets, TLC

VARIABLES
    backing,            \* SliceQueue.backing: the live elements, front first
    capacity,           \* SliceQueue.backing.capacity()
    limit,              \* SliceQueue.limit
    auto_shrink_mode,   \* SliceQueue.auto_shrink_mode
    spare_slots,        \* lib.rs: the raw content of the slots from length to capacity
    unsafe_fast_code,   \* the cargo feature that selects mem::usafe or mem::safe
    op,                 \* the last call: its name and its arguments
    ret,                \* what the last call returned
    pre,                \* the queue as it was before the last call
    lowered,            \* ghost: set_limit has put the limit below the length
    rt_src,             \* round trip: the sequence S to append
    rt_pos,             \* round trip: elements of S appended, then also pops made
    rt_out,             \* round trip: the elements removed so far, in order
    rt_ok               \* round trip: every call so far returned Ok

vars == <<backing, capacity, limit, auto_shrink_mode, spare_slots, unsafe_fast_code, op,
          ret, pre, lowered, rt_src, rt_pos, rt_out, rt_ok>>

----------------------------------------------------------------------------
(* Bounds of the exploration *)

\* the longest queue the exploration builds
MaxLen == 4
\* the longest argument vector or slice, and the largest count n
MaxArg == 2
\* the longest sequence S of the round trip
MaxRT == 3
\* the longest queue the exploration of the shrinking starts from
MaxShrinkLen == 14

----------------------------------------------------------------------------
(* Program constants *)

\* usize::MAX, for a 16 bit usize
USIZE_MAX == 65535
\* isize::MAX: the most bytes a Vec allocates
ISIZE_MAX == 32767
\* the element type T is bool; T::default() is false
DefaultElem == FALSE
\* RawVec::MIN_NON_ZERO_CAP for elements of at most 1024 bytes: the smallest
\* capacity an amortized growth of the Vec allocates
MinNonZeroCap == 4
\* shrink_opportunistic leaves queues of at most this many elements alone
ShrinkFloor == 4

\* the values of the element type
Elems == BOOLEAN

Modes == {"Opportunistic", "Aggressive", "Disabled"}

Min(a, b) == IF a <= b THEN a ELSE b

Max(a, b) == IF a >= b THEN a ELSE b

\* all sequences over S of length at most n
SeqsUpTo(S, n) == UNION {[1..k -> S] : k \in 0..n}

\* s[from..] of Rust: the elements after the first `from`
SliceFrom(s, from) == SubSeq(s, from + 1, Len(s))

\* s[..to] of Rust: the first `to` elements
SliceTo(s, to) == SubSeq(s, 1, to)

\* the value a call returns: Ok/Err/Panic, with a count, a vector of elements
\* and the caller's buffer after the call; released lists the slots whose
\* element the call destroyed (for a T that needs drop), in the order of
\* their destruction
Ret(kind, n, elems, dst) ==
    [n |-> n, kind |-> kind, elems |-> elems, dst |-> dst, released |-> <<>>]

\* the returned value r of a call that destroyed the elements of the slots rel
Releasing(r, rel) == [r EXCEPT !.released = rel]

NoElems == <<>>

----------------------------------------------------------------------------
(* std::vec::Vec as the queue uses it *)

\* RawVec::grow_amortized: the capacity after growing for `additional` more
GrowAmortized(cap, len, additional) ==
    Max(Max(cap * 2, len + additional), MinNonZeroCap)

\* Vec::reserve(additional)
VecReserve(q, additional) ==
    IF q.capacity - Len(q.backing) >= additional THEN q
    ELSE [q EXCEPT !.capacity = GrowAmortized(q.capacity, Len(q.backing), additional)]

\* reserve_exact that sets the capacity to len + additional in every case
VecReserveExactAlways(q, additional) ==
    [q EXCEPT !.capacity = Len(q.backing) + additional]

\* Vec::reserve_exact(additional)
VecReserveExact(q, additional) ==
    IF q.capacity - Len(q.backing) >= additional THEN q
    ELSE [q EXCEPT !.capacity = Len(q.backing) + additional]

\* Vec::push(element)
VecPush(q, element) ==
    [VecReserve(q, 1) EXCEPT !.backing = Append(q.backing, element)]

\* Vec::append(other) and Vec::extend_from_slice(other)
VecAppend(q, other) ==
    [VecReserve(q, Len(other)) EXCEPT !.backing = q.backing \o other]

\* Vec::truncate(len)
VecTruncate(q, len) ==
    IF len >= Len(q.backing) THEN q
    ELSE [q EXCEPT !.backing = SliceTo(q.backing, len)]

\* Vec::shrink_to_fit()
VecShrinkToFit(q) ==
    IF q.capacity > Len(q.backing) THEN [q EXCEPT !.capacity = Len(q.backing)]
    ELSE q

----------------------------------------------------------------------------
(* src/src/mem.rs: a result is [ok, vec, out, rel]: ok is FALSE when an      *)
(* assertion fails, vec is the source vector afterwards, out the elements  *)
(* moved out, rel the slots whose element was destroyed: <<"vec", i>> is   *)
(* the i-th slot of the source vector as it was, <<"dst", i>> the i-th     *)
(* slot of the destination slice as it was                                 *)

MemRes(ok, vec, out) == [rel |-> <<>>, ok |-> ok, vec |-> vec, out |-> out]

MemRel(m, rel) == [m EXCEPT !.rel = rel]

\* usafe::drop_in_place on the first n slots of buf: ptr.drop_in_place() runs
\* on each of them, front to back
usafe_drop_in_place(buf, n) == [i \in 1..n |-> <<buf, i>>]

\* the elements a Vec::drain(..n) destroys when it is dropped unconsumed
drain_dropped(n) == [i \in 1..n |-> <<"vec", i>>]

\* the elements the assignments *t = .. destroy in the first n slots of dst
assign_dropped(n) == [i \in 1..n |-> <<"dst", i>>]

\* ptr::copy(src, dst, count) inside one buffer: the elements
\* mem[from+1 .. from+count] are copied to mem[1 .. count]
PtrCopyToFront(mem, from, count) ==
    [i \in 1..Len(mem) |-> IF i <= count THEN mem[i + from] ELSE mem[i]]

\* discard_n that sets the length and does not move the elements down
usafe_discard_n_no_copy(vec, n) == SliceTo(vec, Len(vec) - n)

\* usafe::discard_n
usafe_discard_n(vec, n) ==
    LET remaining == Len(vec) - n
    IN  SliceTo(PtrCopyToFront(vec, n, remaining), remaining)

\* usafe::drop_n without the drop_in_place: the elements are forgotten
usafe_drop_n_leaking(vec, n) ==
    IF ~(n <= Len(vec)) THEN MemRes(FALSE, vec, NoElems)
    ELSE MemRes(TRUE, usafe_discard_n(vec, n), NoElems)

\* usafe::drop_n
usafe_drop_n(vec, n) ==
    IF ~(n <= Len(vec)) THEN MemRes(FALSE, vec, NoElems)
    ELSE MemRel(MemRes(TRUE, usafe_discard_n(vec, n), NoElems), usafe_drop_in_place("vec", n))

\* usafe::drain_n that destroys the elements it has copied out
usafe_drain_n_releasing(src, n) ==
    IF ~(n <= Len(src)) THEN MemRes(FALSE, src, NoElems)
    ELSE MemRel(MemRes(TRUE, usafe_discard_n(src, n), [i \in 1..n |-> src[i]]),
                usafe_drop_in_place("vec", n))

\* usafe::drain_n
usafe_drain_n(src, n) ==
    IF ~(n <= Len(src)) THEN MemRes(FALSE, src, NoElems)
    ELSE MemRes(TRUE, usafe_discard_n(src, n), [i \in 1..n |-> src[i]])

\* usafe::drain_into without the drop_in_place: dst is overwritten as it is
usafe_drain_into_leaking(src, dst) ==
    IF ~(Len(dst) <= Len(src)) THEN MemRes(FALSE, src, dst)
    ELSE MemRes(TRUE, usafe_discard_n(src, Len(dst)), [i \in 1..Len(dst) |-> src[i]])

\* usafe::drain_into
usafe_drain_into(src, dst) ==
    IF ~(Len(dst) <= Len(src)) THEN MemRes(FALSE, src, dst)
    ELSE MemRel(MemRes(TRUE, usafe_discard_n(src, Len(dst)), [i \in 1..Len(dst) |-> src[i]]),
                usafe_drop_in_place("dst", Len(dst)))

\* safe::drop_n
safe_drop_n(src, n) ==
    IF ~(n <= Len(src)) THEN MemRes(FALSE, src, NoElems)
    ELSE MemRel(MemRes(TRUE, SliceFrom(src, n), NoElems), drain_dropped(n))

\* safe::drain_n
safe_drain_n(src, n) ==
    IF ~(n <= Len(src)) THEN MemRes(FALSE, src, NoElems)
    ELSE MemRes(TRUE, SliceFrom(src, n), SliceTo(src, n))

\* safe::drain_into
safe_drain_into(src, dst) ==
    IF ~(Len(dst) <= Len(src)) THEN MemRes(FALSE, src, dst)
    ELSE MemRel(MemRes(TRUE, SliceFrom(src, Len(dst)), [i \in 1..Len(dst) |-> src[i]]),
                assign_dropped(Len(dst)))

\* mem::drop_n as the build selects it
drop_n_mem(fast, vec, n) ==
    IF fast THEN usafe_drop_n(vec, n) ELSE safe_drop_n(vec, n)

\* mem::drain_n as the build selects it
drain_n_mem(fast, vec, n) ==
    IF fast THEN usafe_drain_n(vec, n) ELSE safe_drain_n(vec, n)

\* mem::drain_into as the build selects it
drain_into_mem(fast, vec, dst) ==
    IF fast THEN usafe_drain_into(vec, dst) ELSE safe_drain_into(vec, dst)

----------------------------------------------------------------------------
(* src/src/queue.rs: SliceQueue.  A result is [q, ret]: the queue after the  *)
(* call and the value returned                                             *)

Queue(b, c, l, m) == [backing |-> b, capacity |-> c, limit |-> l, auto_shrink_mode |-> m]

Res(q, r) == [ret |-> r, q |-> q]

Unit == Ret("Ok", 0, NoElems, NoElems)

Panic == Ret("Panic", 0, NoElems, NoElems)

\* SliceQueue::new
new == Queue(<<>>, 0, USIZE_MAX, "Opportunistic")

\* SliceQueue::with_capacity
with_capacity(n) == Queue(<<>>, n, USIZE_MAX, "Opportunistic")

\* what a constructor that panics returns: no queue
NoQueue == [none |-> TRUE]

\* SliceQueue::with_limit
with_limit(l) ==
    IF ~(l > 0) THEN Res(NoQueue, Panic)
    ELSE Res(Queue(<<>>, 0, l, "Opportunistic"), Unit)

\* Default::default for SliceQueue, as #[derive(Default)] generates it:
\* Vec::default(), usize::default() and AutoShrinkMode::default()
default == Queue(<<>>, 0, 0, "Opportunistic")

\* From<Vec<T>> for SliceQueue: vec is the vector, cap its capacity
from_vec(vec, cap) == Queue(vec, cap, USIZE_MAX, "Opportunistic")

\* From<&[T]> for SliceQueue
from_slice(slice) == Queue(slice, Len(slice), USIZE_MAX, "Opportunistic")

\* SliceQueue::set_auto_shrink_mode
set_auto_shrink_mode(q, mode) == Res([q EXCEPT !.auto_shrink_mode = mode], Unit)

\* set_limit that cuts the queue down to the new limit
set_limit_truncating(q, l) ==
    IF ~(l > 0) THEN Res(q, Panic)
    ELSE Res([q EXCEPT !.limit = l, !.backing = SliceTo(q.backing, Min(l, Len(q.backing)))], Unit)

\* set_limit without its assertion
set_limit_unchecked(q, l) == Res([q EXCEPT !.limit = l], Unit)

\* SliceQueue::set_limit
set_limit(q, l) ==
    IF ~(l > 0) THEN Res(q, Panic)
    ELSE Res([q EXCEPT !.limit = l], Unit)

\* SliceQueue::len
len(q) == Len(q.backing)

\* SliceQueue::is_empty
is_empty(q) == Len(q.backing) = 0

\* shrink_opportunistic that shrinks only below half of the capacity
shrink_opportunistic_below_half(q) ==
    LET half_capacity == IF q.capacity = 0 THEN 0 ELSE q.capacity \div 2
    IN  IF len(q) > ShrinkFloor /\ (len(q) < half_capacity \/ q.capacity > q.limit)
        THEN VecShrinkToFit(q)
        ELSE q

\* SliceQueue::shrink_opportunistic
shrink_opportunistic(q) ==
    LET half_capacity == IF q.capacity = 0 THEN 0 ELSE q.capacity \div 2
    IN  IF len(q) > ShrinkFloor /\ (len(q) <= half_capacity \/ q.capacity > q.limit)
        THEN VecShrinkToFit(q)
        ELSE q

\* shrink_to_fit that gives up the slot of the last element too
shrink_to_fit_below_len(q) ==
    IF len(q) > 0 THEN [q EXCEPT !.capacity = len(q) - 1] ELSE VecShrinkToFit(q)

\* SliceQueue::shrink_to_fit
shrink_to_fit(q) == VecShrinkToFit(q)

\* auto_shrink that shrinks opportunistically in mode Aggressive too
auto_shrink_never_aggressive(q) ==
    CASE q.auto_shrink_mode = "Opportunistic" -> shrink_opportunistic(q)
      [] q.auto_shrink_mode = "Aggressive" -> shrink_opportunistic(q)
      [] q.auto_shrink_mode = "Disabled" -> q

\* SliceQueue::auto_shrink
auto_shrink(q) ==
    CASE q.auto_shrink_mode = "Opportunistic" -> shrink_opportunistic(q)
      [] q.auto_shrink_mode = "Aggressive" -> shrink_to_fit(q)
      [] q.auto_shrink_mode = "Disabled" -> q

\* SliceQueue::peek: Vec::first
peek(q) ==
    IF Len(q.backing) = 0 THEN Res(q, Ret("None", 0, NoElems, NoElems))
    ELSE Res(q, Ret("Some", 0, <<q.backing[1]>>, NoElems))

\* peek_n that returns an empty slice when fewer than n elements are there
peek_n_err_empty(q, n) ==
    IF n <= len(q) THEN Res(q, Ret("Ok", 0, SliceTo(q.backing, n), NoElems))
    ELSE Res(q, Ret("Err", 0, NoElems, NoElems))

\* SliceQueue::peek_n
peek_n(q, n) ==
    IF n <= len(q) THEN Res(q, Ret("Ok", 0, SliceTo(q.backing, n), NoElems))
    ELSE Res(q, Ret("Err", 0, q.backing, NoElems))

\* pop that takes the last element, as Vec::pop does
pop_last(q) ==
    IF is_empty(q) THEN Res(q, Ret("Err", 0, NoElems, NoElems))
    ELSE LET element == q.backing[Len(q.backing)]
             removed == [q EXCEPT !.backing = SliceTo(q.backing, Len(q.backing) - 1)]
         IN  Res(auto_shrink(removed), Ret("Ok", 0, <<element>>, NoElems))

\* pop that shrinks before it looks whether there is an element
pop_shrink_first(q) ==
    IF is_empty(q) THEN Res(auto_shrink(q), Ret("Err", 0, NoElems, NoElems))
    ELSE LET element == q.backing[1]
             removed == [q EXCEPT !.backing = Tail(q.backing)]
         IN  Res(auto_shrink(removed), Ret("Ok", 0, <<element>>, NoElems))

\* SliceQueue::pop
pop(q) ==
    IF is_empty(q) THEN Res(q, Ret("Err", 0, NoElems, NoElems))
    ELSE LET element == q.backing[1]
             removed == [q EXCEPT !.backing = Tail(q.backing)]
         IN  Res(auto_shrink(removed), Ret("Ok", 0, <<element>>, NoElems))

\* pop_n that reports Ok whatever it got
pop_n_always_ok(fast, q, n) ==
    LET to_consume == Min(len(q), n)
        m == drain_n_mem(fast, q.backing, to_consume)
    IN  IF ~m.ok THEN Res(q, Panic)
        ELSE Res(auto_shrink([q EXCEPT !.backing = m.vec]),
                 Ret("Ok", 0, m.out, NoElems))

\* SliceQueue::pop_n
pop_n(fast, q, n) ==
    LET to_consume == Min(len(q), n)
        m == drain_n_mem(fast, q.backing, to_consume)
    IN  IF ~m.ok THEN Res(q, Panic)
        ELSE Res(auto_shrink([q EXCEPT !.backing = m.vec]),
                 Releasing(Ret(IF to_consume = n THEN "Ok" ELSE "Err", 0, m.out, NoElems), m.rel))

\* pop_into that reports the count it could not move
pop_into_err_missing(fast, q, dst) ==
    LET to_move == Min(len(q), Len(dst))
        m == drain_into_mem(fast, q.backing, SliceTo(dst, to_move))
        filled == m.out \o SliceFrom(dst, to_move)
    IN  IF ~m.ok THEN Res(q, [Panic EXCEPT !.dst = dst])
        ELSE Res(auto_shrink([q EXCEPT !.backing = m.vec]),
                 IF to_move = Len(dst) THEN Ret("Ok", 0, NoElems, filled)
                 ELSE Ret("Err", Len(dst) - to_move, NoElems, filled))

\* SliceQueue::pop_into
pop_into(fast, q, dst) ==
    LET to_move == Min(len(q), Len(dst))
        m == drain_into_mem(fast, q.backing, SliceTo(dst, to_move))
        filled == m.out \o SliceFrom(dst, to_move)
    IN  IF ~m.ok THEN Res(q, [Panic EXCEPT !.dst = dst])
        ELSE Res(auto_shrink([q EXCEPT !.backing = m.vec]),
                 Releasing(IF to_move = Len(dst) THEN Ret("Ok", 0, NoElems, filled)
                           ELSE Ret("Err", to_move, NoElems, filled), m.rel))

\* read that reports the length of buf in every case
read_buf_len(fast, q, buf) ==
    LET r == pop_into(fast, q, buf)
    IN  IF r.ret.kind = "Panic" THEN r
        ELSE Res(r.q, Ret("Ok", Len(buf), NoElems, r.ret.dst))

\* Read::read for SliceQueue<u8>; the bytes are the values of Elems
read(fast, q, buf) ==
    LET r == pop_into(fast, q, buf)
    IN  CASE r.ret.kind = "Ok" -> Res(r.q, Ret("Ok", Len(buf), NoElems, r.ret.dst))
          [] r.ret.kind = "Err" -> Res(r.q, Ret("Ok", r.ret.n, NoElems, r.ret.dst))
          [] r.ret.kind = "Panic" -> r

\* drop_n that reports the count it could not drop
drop_n_err_missing(fast, q, n) ==
    LET to_drop == Min(len(q), n)
        m == drop_n_mem(fast, q.backing, to_drop)
    IN  IF ~m.ok THEN Res(q, Panic)
        ELSE Res(auto_shrink([q EXCEPT !.backing = m.vec]),
                 IF to_drop = n THEN Unit ELSE Ret("Err", n - to_drop, NoElems, NoElems))

\* SliceQueue::drop_n
drop_n(fast, q, n) ==
    LET to_drop == Min(len(q), n)
        m == drop_n_mem(fast, q.backing, to_drop)
    IN  IF ~m.ok THEN Res(q, Panic)
        ELSE Res(auto_shrink([q EXCEPT !.backing = m.vec]),
                 Releasing(IF to_drop = n THEN Unit ELSE Ret("Err", to_drop, NoElems, NoElems),
                           m.rel))

\* usize::checked_sub: None when the difference is below zero
checked_sub(a, b) ==
    IF b > a THEN [some |-> FALSE, val |-> 0] ELSE [some |-> TRUE, val |-> a - b]

\* Option<usize>::unwrap_or_default
unwrap_or_default(o) == IF o.some THEN o.val ELSE 0

\* remaining() with the wrapping difference limit - len
remaining_wrapping(q) == (q.limit - len(q)) % (USIZE_MAX + 1)

\* SliceQueue::remaining
remaining(q) == unwrap_or_default(checked_sub(q.limit, len(q)))

\* SliceQueue::reserved
reserved(q) == q.capacity - len(q)

\* reserve_n that reserves for all n elements, whatever the limit
reserve_n_unclipped(q, n) == Res(VecReserveExact(q, n), Unit)

\* reserve_n that clips n to remaining(), not to limit - capacity
reserve_n_by_remaining(q, n) ==
    LET to_reserve == Min(remaining(q), n)
    IN  Res(VecReserveExact(q, to_reserve),
            IF to_reserve = n THEN Unit ELSE Ret("Err", to_reserve, NoElems, NoElems))

\* SliceQueue::reserve_n
reserve_n(q, n) ==
    LET room == unwrap_or_default(checked_sub(q.limit, q.capacity))
        to_reserve == Min(room, n)
    IN  Res(VecReserveExact(q, to_reserve),
            IF to_reserve = n THEN Unit ELSE Ret("Err", to_reserve, NoElems, NoElems))

\* push that takes an element when nothing remains
push_at_limit(q, element) ==
    IF q.limit >= len(q) THEN Res(VecPush(q, element), Unit)
    ELSE Res(q, Ret("Err", 0, <<element>>, NoElems))

\* push that makes room before it looks at the limit
push_reserve_first(q, element) ==
    IF remaining(q) >= 1 THEN Res(VecPush(q, element), Unit)
    ELSE Res(VecReserve(q, 1), Ret("Err", 0, <<element>>, NoElems))

\* SliceQueue::push
push(q, element) ==
    IF remaining(q) >= 1 THEN Res(VecPush(q, element), Unit)
    ELSE Res(q, Ret("Err", 0, <<element>>, NoElems))

\* push_n that appends all of n, whatever the limit
push_n_unclipped(q, n) == Res(VecAppend(q, n), Unit)

\* push_n that splits one element too late
push_n_split_late(q, n) ==
    IF remaining(q) >= Len(n) THEN Res(VecAppend(q, n), Unit)
    ELSE LET at == remaining(q)
             rest == SliceFrom(n, at + 1)
             head == SliceTo(n, at)
         IN  Res(VecAppend(q, head), Ret("Err", 0, rest, NoElems))

\* SliceQueue::push_n
push_n(q, n) ==
    IF remaining(q) >= Len(n) THEN Res(VecAppend(q, n), Unit)
    ELSE LET at == remaining(q)
             rest == SliceFrom(n, at)
             head == SliceTo(n, at)
         IN  Res(VecAppend(q, head), Ret("Err", 0, rest, NoElems))

\* push_from that reports the count left over
push_from_err_left(q, src) ==
    LET to_append == Min(remaining(q), Len(src))
    IN  Res(VecAppend(q, SliceTo(src, to_append)),
            IF to_append = Len(src) THEN Unit
            ELSE Ret("Err", Len(src) - to_append, NoElems, NoElems))

\* SliceQueue::push_from
push_from(q, src) ==
    LET to_append == Min(remaining(q), Len(src))
    IN  Res(VecAppend(q, SliceTo(src, to_append)),
            IF to_append = Len(src) THEN Unit
            ELSE Ret("Err", to_append, NoElems, NoElems))

\* write that reports the length of buf in every case
write_buf_len(q, buf) ==
    Res(push_from(q, buf).q, Ret("Ok", Len(buf), NoElems, NoElems))

\* Write::write for SliceQueue<u8>
write(q, buf) ==
    LET r == push_from(q, buf)
    IN  CASE r.ret.kind = "Ok" -> Res(r.q, Ret("Ok", Len(buf), NoElems, NoElems))
          [] r.ret.kind = "Err" -> Res(r.q, Ret("Ok", r.ret.n, NoElems, NoElems))

\* Write::flush for SliceQueue<u8>
flush(q) == Res(q, Unit)

\* the n slots that push_in_place appends and hands to the callback
default_slots(n) == [i \in 1..n |-> DefaultElem]

\* push_in_place when push_fn has returned: the n slots are appended and hold
\* what push_fn left in them
push_in_place_called(q, n, written) ==
    [VecReserve(q, n) EXCEPT !.backing = q.backing \o written]

\* push_in_place that keeps all n slots, whatever push_fn returned
push_in_place_keep_all(q, n, written, fn_kind, fn_n) ==
    IF ~(q.limit >= (len(q) + n) % (USIZE_MAX + 1)) THEN Res(q, Panic)
    ELSE IF len(q) + n > ISIZE_MAX THEN Res(q, Panic)
    ELSE IF fn_kind = "Ok" /\ fn_n > n
         THEN Res(push_in_place_called(q, n, written), [Panic EXCEPT !.dst = <<default_slots(n)>>])
         ELSE Res(shrink_opportunistic(push_in_place_called(q, n, written)),
                  Ret(fn_kind, fn_n, NoElems, <<default_slots(n)>>))

\* push_in_place that keeps fn_n slots of a push_fn that returned Err too
push_in_place_keep_on_err(q, n, written, fn_kind, fn_n) ==
    IF ~(q.limit >= (len(q) + n) % (USIZE_MAX + 1)) THEN Res(q, Panic)
    ELSE IF len(q) + n > ISIZE_MAX THEN Res(q, Panic)
    ELSE IF fn_kind = "Ok" /\ fn_n > n
         THEN Res(push_in_place_called(q, n, written), [Panic EXCEPT !.dst = <<default_slots(n)>>])
         ELSE Res(shrink_opportunistic(VecTruncate(push_in_place_called(q, n, written), len(q) + fn_n)),
                  Ret(fn_kind, fn_n, NoElems, <<default_slots(n)>>))

\* push_in_place that reserves the slots before it checks the limit
push_in_place_reserve_first(q, n, written, fn_kind, fn_n) ==
    IF ~(q.limit >= (len(q) + n) % (USIZE_MAX + 1)) THEN Res(VecReserve(q, n), Panic)
    ELSE IF len(q) + n > ISIZE_MAX THEN Res(q, Panic)
    ELSE IF fn_kind = "Ok" /\ fn_n > n
         THEN Res(push_in_place_called(q, n, written), [Panic EXCEPT !.dst = <<default_slots(n)>>])
         ELSE Res(shrink_opportunistic(VecTruncate(push_in_place_called(q, n, written),
                                                   len(q) + (IF fn_kind = "Ok" THEN fn_n ELSE 0))),
                  Ret(fn_kind, fn_n, NoElems, <<default_slots(n)>>))

\* push_in_place that does not check the count push_fn returned
push_in_place_unchecked_count(q, n, written, fn_kind, fn_n) ==
    IF ~(q.limit >= (len(q) + n) % (USIZE_MAX + 1)) THEN Res(q, Panic)
    ELSE IF len(q) + n > ISIZE_MAX THEN Res(q, Panic)
    ELSE Res(shrink_opportunistic(VecTruncate(push_in_place_called(q, n, written),
                                              len(q) + (IF fn_kind = "Ok" THEN fn_n ELSE 0))),
             Ret(fn_kind, fn_n, NoElems, <<default_slots(n)>>))

\* SliceQueue::push_in_place.  The callback push_fn is given by what it leaves
\* in the n slots (written) and by what it returns (fn_kind with fn_n: the
\* count of an Ok, the value of an Err); ret.dst is the record of its calls,
\* one entry for each, holding the slots as push_fn was handed them.
\* Vec::truncate destroys the slots it cuts off.
\* len + n is computed in the width of usize (a build with overflow checks
\* panics there instead), and Vec::reserve panics with a capacity overflow
\* when the vector would exceed isize::MAX bytes.
push_in_place(q, n, written, fn_kind, fn_n) ==
    IF ~(q.limit >= (len(q) + n) % (USIZE_MAX + 1)) THEN Res(q, Panic)
    ELSE IF len(q) + n > ISIZE_MAX THEN Res(q, Panic)
    ELSE LET old_len == len(q)
             called == push_in_place_called(q, n, written)
         IN  IF fn_kind = "Ok" /\ fn_n > n
             THEN Res(called, [Panic EXCEPT !.dst = <<default_slots(n)>>])
             ELSE LET keep == IF fn_kind = "Ok" THEN fn_n ELSE 0
                      truncated == [i \in 1..(n - keep) |-> <<"vec", old_len + keep + i>>]
                  IN  Res(shrink_opportunistic(VecTruncate(called, old_len + keep)),
                          Releasing(Ret(fn_kind, fn_n, NoElems, <<default_slots(n)>>), truncated))

----------------------------------------------------------------------------
(* The state machine: one queue, and any caller                            *)

\* the queue of the current state
Q == Queue(backing, capacity, limit, auto_shrink_mode)

\* a call: its name, its count argument, its vector or slice argument and,
\* for push_in_place, what the callback returns
Op(name, n, elems, fn_kind, fn_n) ==
    [n |-> n, elems |-> elems, fn_kind |-> fn_kind, fn_n |-> fn_n, name |-> name]

\* the limits a caller sets: 0 (refused), the small ones and the default
Limits == (0..MaxLen) \cup {USIZE_MAX}

Args == SeqsUpTo(Elems, MaxArg)

RoundTripIdle ==
    /\ rt_src = <<>>
    /\ rt_pos = 0
    /\ rt_out = <<>>
    /\ rt_ok = TRUE

\* the state after the call o that gave the result r; the exploration makes
\* no queue longer than MaxLen, and makes no longer queue longer still
Becomes(o, r) ==
    /\ len(r.q) <= MaxLen \/ len(r.q) <= len(Q)
    /\ backing' = r.q.backing
    /\ capacity' = r.q.capacity
    /\ limit' = r.q.limit
    /\ auto_shrink_mode' = r.q.auto_shrink_mode
    /\ op' = o
    /\ ret' = r.ret
    /\ pre' = Q
    /\ UNCHANGED <<spare_slots, unsafe_fast_code>>

\* the caller holds no result of an earlier call
Idle == op.name = "idle"

Call(o, r) ==
    /\ Idle
    /\ Becomes(o, r)
    /\ UNCHANGED <<lowered, rt_src, rt_pos, rt_out, rt_ok>>

\* a queue as one of the constructors returns it
Constructed(q, name, n) ==
    /\ backing = q.backing
    /\ capacity = q.capacity
    /\ limit = q.limit
    /\ auto_shrink_mode = q.auto_shrink_mode
    /\ spare_slots = <<>>
    /\ op = Op(name, n, NoElems, "Ok", 0)
    /\ ret = Unit
    /\ pre = q
    /\ lowered = FALSE
    /\ unsafe_fast_code \in BOOLEAN

\* the caller drops what the last call returned and the buffers it passed
Discard ==
    /\ ~Idle
    /\ op' = Op("idle", 0, NoElems, "Ok", 0)
    /\ ret' = Unit
    /\ pre' = Q
    /\ UNCHANGED <<backing, capacity, limit, auto_shrink_mode, spare_slots,
                   unsafe_fast_code, lowered, rt_src, rt_pos, rt_out, rt_ok>>

Init ==
    /\ RoundTripIdle
    /\ \/ Constructed(new, "new", 0)
       \/ \E n \in 1..(2 * MaxLen) : Constructed(with_capacity(n), "with_capacity", n)
       \/ \E l \in 1..MaxLen : Constructed(with_limit(l).q, "with_limit", l)
       \/ \E v \in Args \ {<<>>} : Constructed(from_vec(v, Len(v)), "from_vec", 0)

SetAutoShrinkMode ==
    \E mode \in Modes :
        Call(Op("set_auto_shrink_mode", 0, NoElems, mode, 0), set_auto_shrink_mode(Q, mode))

SetLimit ==
    \E l \in Limits :
        Call(Op("set_limit", l, NoElems, "Ok", 0), set_limit(Q, l))

ShrinkOpportunistic ==
    Call(Op("shrink_opportunistic", 0, NoElems, "Ok", 0), Res(shrink_opportunistic(Q), Unit))

ShrinkToFit ==
    Call(Op("shrink_to_fit", 0, NoElems, "Ok", 0), Res(shrink_to_fit(Q), Unit))

Pop ==
    Call(Op("pop", 0, NoElems, "Ok", 0), pop(Q))

PopN ==
    \E n \in 0..(MaxArg + 1) :
        Call(Op("pop_n", n, NoElems, "Ok", 0), pop_n(unsafe_fast_code, Q, n))

PopInto ==
    \E dst \in Args :
        Call(Op("pop_into", 0, dst, "Ok", 0), pop_into(unsafe_fast_code, Q, dst))

DropN ==
    \E n \in 0..(MaxArg + 1) :
        Call(Op("drop_n", n, NoElems, "Ok", 0), drop_n(unsafe_fast_code, Q, n))

Remaining ==
    Call(Op("remaining", 0, NoElems, "Ok", 0), Res(Q, Ret("Ok", remaining(Q), NoElems, NoElems)))

ReserveN ==
    \E n \in 0..MaxArg :
        Call(Op("reserve_n", n, NoElems, "Ok", 0), reserve_n(Q, n))

Push ==
    \E element \in Elems :
        Call(Op("push", 0, <<element>>, "Ok", 0), push(Q, element))

PushN ==
    \E n \in Args :
        Call(Op("push_n", 0, n, "Ok", 0), push_n(Q, n))

PushFrom ==
    \E src \in Args :
        Call(Op("push_from", 0, src, "Ok", 0), push_from(Q, src))

\* push_in_place of a small n with any callback: an Err carries the value 0
\* or 1; and push_in_place(usize::MAX, ..), which never gets to its callback
PushInPlace ==
    \/ \E n \in 0..MaxArg : \E written \in [1..n -> Elems] :
           \E fn_kind \in {"Ok", "Err"} : \E fn_n \in 0..(n + 1) :
               /\ fn_kind = "Err" => fn_n <= 1
               /\ Call(Op("push_in_place", n, written, fn_kind, fn_n),
                       push_in_place(Q, n, written, fn_kind, fn_n))
    \/ Call(Op("push_in_place", USIZE_MAX, NoElems, "Ok", 0),
            push_in_place(Q, USIZE_MAX, NoElems, "Ok", 0))

Next ==
    \/ Discard
    \/ SetAutoShrinkMode
    \/ SetLimit
    \/ ShrinkOpportunistic
    \/ ShrinkToFit
    \/ Pop
    \/ PopN
    \/ PopInto
    \/ DropN
    \/ Remaining
    \/ ReserveN
    \/ Push
    \/ PushN
    \/ PushFrom
    \/ PushInPlace

Spec == Init /\ [][Next]_vars

----------------------------------------------------------------------------
(* A queue whose limit is never changed after its construction *)

NextFixedLimit ==
    \/ Discard
    \/ SetAutoShrinkMode
    \/ ShrinkOpportunistic
    \/ ShrinkToFit
    \/ Pop
    \/ PopN
    \/ PopInto
    \/ DropN
    \/ Remaining
    \/ ReserveN
    \/ Push
    \/ PushN
    \/ PushFrom
    \/ PushInPlace

SpecFixedLimit == Init /\ [][NextFixedLimit]_vars

----------------------------------------------------------------------------
(* The constructors: the caller binds its queue to a newly made one         *)

\* let queue = <constructor>, where the constructor gave r: a constructor that
\* panics makes no queue, and the caller's queue stays as it was
Construct(o, r) ==
    Call(o, IF r.ret.kind = "Panic" THEN Res(Q, Panic) ELSE r)

New ==
    Construct(Op("new", 0, NoElems, "Ok", 0), Res(new, Unit))

WithCapacity ==
    \E n \in 0..MaxArg :
        Construct(Op("with_capacity", n, NoElems, "Ok", 0), Res(with_capacity(n), Unit))

WithLimit ==
    \E l \in Limits :
        Construct(Op("with_limit", l, NoElems, "Ok", 0), with_limit(l))

FromVec ==
    \E vec \in Args : \E spare \in 0..1 :
        Construct(Op("from_vec", spare, vec, "Ok", 0), Res(from_vec(vec, Len(vec) + spare), Unit))

FromSlice ==
    \E slice \in Args :
        Construct(Op("from_slice", 0, slice, "Ok", 0), Res(from_slice(slice), Unit))

Default ==
    Construct(Op("default", 0, NoElems, "Ok", 0), Res(default, Unit))

NextConstruct ==
    \/ Discard
    \/ New
    \/ WithCapacity
    \/ WithLimit
    \/ FromVec
    \/ FromSlice
    \/ Default
    \/ SetLimit
    \/ Remaining
    \/ Push

SpecConstruct == Init /\ [][NextConstruct]_vars

----------------------------------------------------------------------------
(* The queue of bytes as a std::io::Read and a std::io::Write              *)

Read ==
    \E buf \in Args :
        Call(Op("read", 0, buf, "Ok", 0), read(unsafe_fast_code, Q, buf))

Write ==
    \E buf \in Args :
        Call(Op("write", 0, buf, "Ok", 0), write(Q, buf))

Flush ==
    Call(Op("flush", 0, NoElems, "Ok", 0), flush(Q))

NextStream ==
    \/ Discard
    \/ SetAutoShrinkMode
    \/ SetLimit
    \/ Read
    \/ Write
    \/ Flush

SpecStream == Init /\ [][NextStream]_vars

----------------------------------------------------------------------------
(* Looking at the front of the queue, between appends and removals         *)

Peek ==
    Call(Op("peek", 0, NoElems, "Ok", 0), peek(Q))

PeekN ==
    \E n \in 0..(MaxArg + 1) :
        Call(Op("peek_n", n, NoElems, "Ok", 0), peek_n(Q, n))

NextPeek ==
    \/ Discard
    \/ SetAutoShrinkMode
    \/ PushFrom
    \/ PopN
    \/ Peek
    \/ PeekN

SpecPeek == Init /\ [][NextPeek]_vars

----------------------------------------------------------------------------
(* Shrinking: a queue of up to MaxShrinkLen default elements, in a vector   *)
(* of any capacity up to MaxShrinkLen; the removals, the calls that set the *)
(* mode, the limit and the capacity, and push_in_place                      *)

InitShrink ==
    /\ RoundTripIdle
    /\ \E k \in 0..MaxShrinkLen : \E spare \in 0..(MaxShrinkLen - k) :
           Constructed(from_vec([i \in 1..k |-> DefaultElem], k + spare), "from_vec", spare)

PopNShrink ==
    \E n \in 0..MaxShrinkLen :
        Call(Op("pop_n", n, NoElems, "Ok", 0), pop_n(unsafe_fast_code, Q, n))

DropNShrink ==
    \E n \in 0..MaxShrinkLen :
        Call(Op("drop_n", n, NoElems, "Ok", 0), drop_n(unsafe_fast_code, Q, n))

\* push_in_place with a callback that leaves the slots as it got them
PushInPlaceShrink ==
    \E n \in 0..MaxArg : \E fn_kind \in {"Ok", "Err"} : \E fn_n \in 0..(n + 1) :
        /\ fn_kind = "Err" => fn_n <= 1
        /\ Call(Op("push_in_place", n, [i \in 1..n |-> DefaultElem], fn_kind, fn_n),
                push_in_place(Q, n, [i \in 1..n |-> DefaultElem], fn_kind, fn_n))

\* push_from of default elements
PushFromShrink ==
    \E k \in 0..MaxArg :
        Call(Op("push_from", 0, [i \in 1..k |-> DefaultElem], "Ok", 0),
             push_from(Q, [i \in 1..k |-> DefaultElem]))

NextShrink ==
    \/ Discard
    \/ SetAutoShrinkMode
    \/ SetLimit
    \/ ShrinkOpportunistic
    \/ ShrinkToFit
    \/ Pop
    \/ PopNShrink
    \/ PopInto
    \/ DropNShrink
    \/ ReserveN
    \/ PushFromShrink
    \/ PushInPlaceShrink

SpecShrink == InitShrink /\ [][NextShrink]_vars

----------------------------------------------------------------------------
(* A queue whose limit is put below its length by the first call, and the  *)
(* removals and appends that follow                                        *)

InitLowered ==
    /\ RoundTripIdle
    /\ \E v \in SeqsUpTo(Elems, MaxLen) :
           /\ Len(v) >= 2
           /\ Constructed(from_vec(v, Len(v)), "from_vec", 0)

LowerLimit ==
    /\ ~lowered
    /\ \E l \in 1..(len(Q) - 1) :
           Becomes(Op("set_limit", l, NoElems, "Ok", 0), set_limit(Q, l))
    /\ lowered' = TRUE
    /\ UNCHANGED <<rt_src, rt_pos, rt_out, rt_ok>>

NextLowered ==
    \/ LowerLimit
    \/ lowered /\ Discard
    \/ lowered /\ Pop
    \/ lowered /\ PopN
    \/ lowered /\ PopInto
    \/ lowered /\ DropN
    \/ lowered /\ Push
    \/ lowered /\ PushN
    \/ lowered /\ PushFrom
    \/ lowered /\ PushInPlace

SpecLowered == InitLowered /\ [][NextLowered]_vars

----------------------------------------------------------------------------
(* The round trip: a sequence rt_src is appended piece by piece to an      *)
(* empty queue and then removed from the front                             *)

InitRoundTrip ==
    /\ rt_src \in SeqsUpTo(Elems, MaxRT)
    /\ rt_pos = 0
    /\ rt_out = <<>>
    /\ rt_ok = TRUE
    /\ \/ Constructed(new, "new", 0)
       \/ \E n \in 1..MaxRT : Constructed(with_capacity(n), "with_capacity", n)
       \/ \E l \in 1..(MaxRT + 1) :
             /\ l >= Len(rt_src)
             /\ Constructed(with_limit(l).q, "with_limit", l)

RTAppending == rt_pos < Len(rt_src) /\ rt_out = <<>>

RTRemoving == rt_pos >= Len(rt_src)

\* the next c elements of rt_src
RTChunk(c) == SubSeq(rt_src, rt_pos + 1, rt_pos + c)

RTAppended(o, r, c) ==
    /\ Becomes(o, r)
    /\ rt_pos' = rt_pos + c
    /\ rt_ok' = (rt_ok /\ r.ret.kind = "Ok")
    /\ UNCHANGED <<rt_src, rt_out, lowered>>

RTRemoved(o, r, calls) ==
    /\ Becomes(o, r)
    /\ rt_out' = rt_out \o r.ret.elems
    /\ rt_pos' = rt_pos + calls
    /\ rt_ok' = (rt_ok /\ r.ret.kind = "Ok")
    /\ UNCHANGED <<rt_src, lowered>>

RTSetMode ==
    /\ rt_pos = 0
    /\ op.name # "set_auto_shrink_mode"
    /\ \E mode \in Modes :
           Becomes(Op("set_auto_shrink_mode", 0, NoElems, mode, 0),
                   set_auto_shrink_mode(Q, mode))
    /\ UNCHANGED <<lowered, rt_src, rt_pos, rt_out, rt_ok>>

RTPush ==
    /\ RTAppending
    /\ RTAppended(Op("push", 0, RTChunk(1), "Ok", 0), push(Q, rt_src[rt_pos + 1]), 1)

RTPushN ==
    /\ RTAppending
    /\ \E c \in 1..(Len(rt_src) - rt_pos) :
           RTAppended(Op("push_n", 0, RTChunk(c), "Ok", 0), push_n(Q, RTChunk(c)), c)

RTPushFrom ==
    /\ RTAppending
    /\ \E c \in 1..(Len(rt_src) - rt_pos) :
           RTAppended(Op("push_from", 0, RTChunk(c), "Ok", 0), push_from(Q, RTChunk(c)), c)

RTPop ==
    /\ RTRemoving
    /\ op.name # "pop_n"
    /\ rt_pos < 2 * Len(rt_src)
    /\ RTRemoved(Op("pop", 0, NoElems, "Ok", 0), pop(Q), 1)

RTPopN ==
    /\ RTRemoving
    /\ op.name # "pop_n"
    /\ rt_pos = Len(rt_src)
    /\ RTRemoved(Op("pop_n", Len(rt_src), NoElems, "Ok", 0),
                 pop_n(unsafe_fast_code, Q, Len(rt_src)), 0)

NextRoundTrip ==
    \/ RTSetMode
    \/ RTPush
    \/ RTPushN
    \/ RTPushFrom
    \/ RTPop
    \/ RTPopN

SpecRoundTrip == InitRoundTrip /\ [][NextRoundTrip]_vars

\* the round trip has made its pop_n(len(S)) or its len(S) calls of pop
RTDone ==
    \/ RTRemoving /\ op.name = "pop_n"
    \/ rt_pos = 2 * Len(rt_src)

----------------------------------------------------------------------------
(* Range indexing: Index<R> for SliceQueue (src/src/queue.rs) and, in the  *)
(* single-file implementation, range_from_bounds (src/src/lib.rs).  A      *)
(* selector is its range type with its start and its end; a bound the      *)
(* range type does not have is ignored                                     *)

RangeTypes ==
    {"Range", "RangeFrom", "RangeTo", "RangeFull", "RangeInclusive", "RangeToInclusive"}

\* the slice a range index returns: ret.n is the index of its first element
\* in the backing, ret.elems its elements
Slice(q, start, elems) == Res(q, Ret("Slice", start, elems, NoElems))

\* <[T] as Index<Range<usize>>>::index, as self.backing[start..end] calls it
VecIndexRange(q, start, end) ==
    IF start > end \/ end > len(q) THEN Res(q, Panic)
    ELSE Slice(q, start, SubSeq(q.backing, start + 1, end))

\* index_impl!: &self.backing[range], with the slice index of each range type
index(q, range_ty, start, end) ==
    CASE range_ty = "Range" -> VecIndexRange(q, start, end)
      [] range_ty = "RangeFrom" -> VecIndexRange(q, start, len(q))
      [] range_ty = "RangeTo" -> VecIndexRange(q, 0, end)
      [] range_ty = "RangeFull" -> VecIndexRange(q, 0, len(q))
      [] range_ty = "RangeInclusive" ->
            IF end = USIZE_MAX THEN Res(q, Panic) ELSE VecIndexRange(q, start, end + 1)
      [] range_ty = "RangeToInclusive" ->
            IF end = USIZE_MAX THEN Res(q, Panic) ELSE VecIndexRange(q, 0, end + 1)

\* the start bound of a range type: Included(start) or Unbounded
StartBound(range_ty, start) ==
    IF range_ty \in {"Range", "RangeFrom", "RangeInclusive"}
    THEN [some |-> TRUE, val |-> start] ELSE [some |-> FALSE, val |-> 0]

\* lib.rs, SliceQueue::range_from_bounds: the range start_included..end_excluded,
\* or a panic for the inclusive end usize::MIN
range_from_bounds(q, range_ty, start, end) ==
    LET sb == StartBound(range_ty, start)
        start_included == IF sb.some THEN sb.val ELSE 0
    IN  CASE range_ty \in {"RangeInclusive", "RangeToInclusive"} ->
                IF end > 0 THEN [ok |-> TRUE, start |-> start_included, end |-> end - 1]
                ELSE [ok |-> FALSE, start |-> 0, end |-> 0]
          [] range_ty \in {"Range", "RangeTo"} ->
                [ok |-> TRUE, start |-> start_included, end |-> end]
          [] OTHER -> [ok |-> TRUE, start |-> start_included, end |-> len(q)]

\* lib.rs, impl_range_index!: &self.backing[self.range_from_bounds(bounds)]
lib_index(q, range_ty, start, end) ==
    LET range == range_from_bounds(q, range_ty, start, end)
    IN  IF ~range.ok THEN Res(q, Panic) ELSE VecIndexRange(q, range.start, range.end)

\* the bounds a caller indexes with
IndexBounds == (0..(MaxLen + 1)) \cup {USIZE_MAX}

\* a range index call: op.fn_kind is the range type, op.n the start and
\* op.fn_n the end
IndexOp(name, range_ty, start, end) == Op(name, start, NoElems, range_ty, end)

Index ==
    \E range_ty \in RangeTypes, start, end \in IndexBounds :
        Call(IndexOp("index", range_ty, start, end), index(Q, range_ty, start, end))

LibIndex ==
    \E range_ty \in RangeTypes, start, end \in IndexBounds :
        Call(IndexOp("lib_index", range_ty, start, end), lib_index(Q, range_ty, start, end))

NextIndex ==
    \/ Discard
    \/ PushFrom
    \/ Index
    \/ LibIndex

SpecIndex == Init /\ [][NextIndex]_vars

----------------------------------------------------------------------------
(* Every constructor, set_limit and every operation that adds or removes    *)
(* elements, in any order                                                  *)

NextLifetime ==
    \/ Discard
    \/ New
    \/ WithCapacity
    \/ WithLimit
    \/ FromVec
    \/ FromSlice
    \/ Default
    \/ SetLimit
    \/ Pop
    \/ PopN
    \/ PopInto
    \/ DropN
    \/ Push
    \/ PushN
    \/ PushFrom
    \/ PushInPlace

SpecLifetime == Init /\ [][NextLifetime]_vars

----------------------------------------------------------------------------
(* src/src/lib.rs: the single-file implementation of SliceQueue, with its  *)
(* raw-memory branches (feature unsafe_fast_code) and its safe branches.   *)
(* Its queue is [backing, capacity, limit, spare_slots]: it has no shrink  *)
(* mode.  spare_slots is the raw memory of the vector from its length to   *)
(* its capacity: <<e>> is a slot that still holds the bits of an element e *)
(* that was moved out of it or destroyed in it, <<>> a slot never written. *)
(* In a release log <<"raw", i>> is the i-th slot of the allocation, for   *)
(* an i beyond the length: a slot that holds no element                    *)

LibQueue(b, c, l, s) == [backing |-> b, capacity |-> c, limit |-> l, spare_slots |-> s]

\* k slots of a fresh allocation
Uninit(k) == [i \in 1..k |-> <<>>]

\* the slots that still hold the bits of elems
Stale(elems) == [i \in 1..Len(elems) |-> <<elems[i]>>]

\* lib.rs, From<Vec<T>> for SliceQueue: vec is the vector, cap its capacity
lib_from_vec(vec, cap) == LibQueue(vec, cap, USIZE_MAX, Uninit(cap - Len(vec)))

\* Vec::set_len(new_len), where mem is what the slots of the elements hold
\* now: the slots from new_len on keep their bits
LibVecSetLen(q, mem, new_len) ==
    [q EXCEPT !.backing = SliceTo(mem, new_len),
              !.spare_slots = Stale(SliceFrom(mem, new_len)) \o q.spare_slots]

\* Vec::drain(..n), consumed or dropped: the tail is moved to the front
LibVecDrain(q, n) ==
    LibVecSetLen(q, PtrCopyToFront(q.backing, n, len(q) - n), len(q) - n)

\* Vec::reserve(additional): a vector that grows gets a fresh allocation
LibVecReserve(q, additional) ==
    IF q.capacity - len(q) >= additional THEN q
    ELSE LET cap == GrowAmortized(q.capacity, len(q), additional)
         IN  [q EXCEPT !.capacity = cap, !.spare_slots = Uninit(cap - len(q))]

\* the elements `elems` are written into the first spare slots, as Vec::push
\* or ptr::write does, and the length is set behind them
LibVecFill(q, elems) ==
    [q EXCEPT !.backing = q.backing \o elems,
              !.spare_slots = SliceFrom(q.spare_slots, Len(elems))]

\* Vec::truncate(len): the elements cut off are destroyed in their slots
LibVecTruncate(q, new_len) ==
    IF new_len >= len(q) THEN q ELSE LibVecSetLen(q, q.backing, new_len)

\* Vec::shrink_to_fit()
LibVecShrinkToFit(q) ==
    IF q.capacity > len(q) THEN [q EXCEPT !.capacity = len(q), !.spare_slots = <<>>]
    ELSE q

\* lib.rs, SliceQueue::shrink_opportunistic
lib_shrink_opportunistic(q) ==
    LET half_capacity == IF q.capacity = 0 THEN 0 ELSE q.capacity \div 2
    IN  IF len(q) > ShrinkFloor /\ (len(q) <= half_capacity \/ q.capacity > q.limit)
        THEN LibVecShrinkToFit(q)
        ELSE q

\* lib.rs, SliceQueue::pop_n
lib_pop_n(fast, q, n) ==
    LET to_consume == Min(len(q), n)
        result == IF to_consume = n THEN "Ok" ELSE "Err"
    IN  IF fast
        THEN LET remaining_len == len(q) - to_consume
             IN  IF n > len(q) THEN Res(q, Panic)
                 ELSE Res(lib_shrink_opportunistic(
                              LibVecSetLen(q, PtrCopyToFront(q.backing, n, remaining_len), remaining_len)),
                          Ret(result, 0, SliceTo(q.backing, to_consume), NoElems))
        ELSE Res(lib_shrink_opportunistic(LibVecDrain(q, to_consume)),
                 Ret(result, 0, SliceTo(q.backing, to_consume), NoElems))

\* lib.rs, SliceQueue::replace_n(src, dst, n): the slots of dst it destroys
replace_n_dropped(buf, n) == [i \in 1..n |-> <<buf, i>>]

\* lib.rs, SliceQueue::pop_into
lib_pop_into(fast, q, dst) ==
    LET to_move == Min(len(q), Len(dst))
        moved == SliceTo(q.backing, to_move) \o SliceFrom(dst, to_move)
        result == IF to_move = Len(dst) THEN Ret("Ok", 0, NoElems, moved)
                  ELSE Ret("Err", to_move, NoElems, moved)
    IN  IF fast
        THEN LET remaining_len == len(q) - to_move
             IN  Res(lib_shrink_opportunistic(
                         LibVecSetLen(q, PtrCopyToFront(q.backing, to_move, remaining_len), remaining_len)),
                     Releasing(result, replace_n_dropped("dst", to_move)))
        ELSE Res(lib_shrink_opportunistic(LibVecDrain(q, to_move)),
                 Releasing(result, assign_dropped(to_move)))

\* lib.rs, SliceQueue::discard_n
lib_discard_n(fast, q, n) ==
    LET to_discard == Min(len(q), n)
        result == IF to_discard = n THEN Unit ELSE Ret("Err", to_discard, NoElems, NoElems)
    IN  IF fast
        THEN LET remaining_len == len(q) - to_discard
             IN  Res(lib_shrink_opportunistic(
                         LibVecSetLen(q, PtrCopyToFront(q.backing, to_discard, remaining_len), remaining_len)),
                     Releasing(result, replace_n_dropped("vec", remaining_len)))
        ELSE Res(lib_shrink_opportunistic(LibVecDrain(q, to_discard)),
                 Releasing(result, drain_dropped(to_discard)))

\* the assignments *ptr = T::default() to the n slots behind old_len: each
\* destroys what its slot held before
raw_assign_dropped(old_len, n) == [i \in 1..n |-> <<"raw", old_len + i>>]

\* lib.rs, SliceQueue::push_in_place, up to the call of push_fn: the slots
\* destroyed while the n default elements are put in place
lib_push_in_place_defaults(fast, q, n) ==
    IF fast THEN raw_assign_dropped(len(q), n) ELSE <<>>

\* lib.rs, SliceQueue::push_in_place.  push_fn leaves `written` in the n
\* slots and returns fn_kind(fn_n).  aborted: the destruction of a value
\* that is none (undefined behaviour) has ended the process before push_fn
\* was called
lib_push_in_place(fast, q, n, written, fn_kind, fn_n, aborted) ==
    IF ~(q.limit >= (len(q) + n) % (USIZE_MAX + 1)) THEN Res(q, Panic)
    ELSE IF len(q) + n > ISIZE_MAX THEN Res(q, Panic)
    ELSE LET old_len == len(q)
             dropped == lib_push_in_place_defaults(fast, q, n)
             reserved_q == LibVecReserve(q, n)
             keep == IF fn_kind = "Ok" THEN fn_n ELSE 0
             truncated == [i \in 1..(n - keep) |-> <<"vec", old_len + keep + i>>]
         IN  IF aborted
             THEN Res(LibVecFill(reserved_q, default_slots(n)),
                      Releasing(Ret("Abort", 0, NoElems, NoElems), dropped))
             ELSE Res(lib_shrink_opportunistic(
                          LibVecTruncate(LibVecFill(reserved_q, written), old_len + keep)),
                      Releasing(Ret(fn_kind, fn_n, NoElems, <<default_slots(n)>>),
                                dropped \o truncated))

\* the queue of lib.rs of the current state
LQ == LibQueue(backing, capacity, limit, spare_slots)

LibBecomes(o, r) ==
    /\ op.name = "idle" \/ op.name = "lib_from_vec"
    /\ len(r.q) <= MaxLen \/ len(r.q) <= len(LQ)
    /\ backing' = r.q.backing
    /\ capacity' = r.q.capacity
    /\ limit' = r.q.limit
    /\ spare_slots' = r.q.spare_slots
    /\ op' = o
    /\ ret' = r.ret
    /\ pre' = LQ
    /\ UNCHANGED <<auto_shrink_mode, unsafe_fast_code, lowered, rt_src, rt_pos, rt_out, rt_ok>>

\* let queue = SliceQueue::from(vec), in either build; lib.rs has no shrink
\* mode, the variable keeps the default
InitLib ==
    /\ RoundTripIdle
    /\ \E vec \in SeqsUpTo(Elems, MaxLen) : \E room \in 0..1 :
           LET q == lib_from_vec(vec, Len(vec) + room)
           IN  /\ backing = q.backing
               /\ capacity = q.capacity
               /\ limit = q.limit
               /\ spare_slots = q.spare_slots
               /\ pre = q
    /\ auto_shrink_mode = "Opportunistic"
    /\ op = Op("lib_from_vec", 0, NoElems, "Ok", 0)
    /\ ret = Unit
    /\ lowered = FALSE
    /\ unsafe_fast_code \in BOOLEAN

\* the caller drops what the last call returned
LibDiscard ==
    /\ ~Idle
    /\ ret.kind # "Abort"
    /\ op' = Op("idle", 0, NoElems, "Ok", 0)
    /\ ret' = Unit
    /\ pre' = LQ
    /\ UNCHANGED <<backing, capacity, limit, auto_shrink_mode, spare_slots,
                   unsafe_fast_code, lowered, rt_src, rt_pos, rt_out, rt_ok>>

LibPopN ==
    \E n \in 0..(MaxLen + 1) :
        LibBecomes(Op("lib_pop_n", n, NoElems, "Ok", 0), lib_pop_n(unsafe_fast_code, LQ, n))

LibPopInto ==
    \E dst \in Args :
        LibBecomes(Op("lib_pop_into", 0, dst, "Ok", 0), lib_pop_into(unsafe_fast_code, LQ, dst))

LibDiscardN ==
    \E n \in 0..(MaxLen + 1) :
        LibBecomes(Op("lib_discard_n", n, NoElems, "Ok", 0),
                   lib_discard_n(unsafe_fast_code, LQ, n))

\* push_in_place with a callback that fills the n slots and returns Ok(k) for
\* a k <= n, or Err.  Where the raw-memory branch has destroyed the content
\* of a slot that holds no element, the process goes on or is aborted
LibPushInPlace ==
    \E n \in 0..MaxArg : \E written \in [1..n -> Elems] :
        \E fn_kind \in {"Ok", "Err"} : \E fn_n \in 0..n : \E aborted \in BOOLEAN :
            /\ fn_kind = "Err" => fn_n = 0
            /\ aborted => unsafe_fast_code /\ n > 0
            /\ LibBecomes(Op("lib_push_in_place", n, written, fn_kind, fn_n),
                          lib_push_in_place(unsafe_fast_code, LQ, n, written, fn_kind, fn_n,
                                            aborted))

NextLib ==
    \/ LibDiscard
    \/ LibPopN
    \/ LibPopInto
    \/ LibDiscardN
    \/ LibPushInPlace

SpecLib == InitLib /\ [][NextLib]_vars

----------------------------------------------------------------------------
(* Clone for SliceQueue: let queue = queue.clone()                         *)

\* Clone::clone: Vec::clone allocates for the elements alone, and the shrink
\* mode of the clone is AutoShrinkMode::default()
clone(q) == Queue(q.backing, len(q), q.limit, "Opportunistic")

\* the caller goes on with the clone; pre is the queue it was cloned from
Clone ==
    Call(Op("clone", 0, NoElems, "Ok", 0), Res(clone(Q), Unit))

NextClone ==
    \/ Discard
    \/ SetAutoShrinkMode
    \/ SetLimit
    \/ PushFrom
    \/ PopN
    \/ Clone

SpecClone == Init /\ [][NextClone]_vars

----------------------------------------------------------------------------
(* Properties *)

TypeOK ==
    /\ backing \in SeqsUpTo(Elems, MaxLen)
    /\ capacity >= Len(backing)
    /\ limit \in 1..USIZE_MAX
    /\ auto_shrink_mode \in Modes

\* the appends that clip their input to remaining()
ClippingAppends == {"push", "push_n", "push_from"}

Appends == ClippingAppends \cup {"push_in_place"}

\* limit - length where that is not negative, else 0
RoomBefore == IF pre.limit >= Len(pre.backing) THEN pre.limit - Len(pre.backing) ELSE 0

\* C1: round trip.  When a sequence S has been appended in order, by push,
\* push_n and push_from calls, to an empty queue whose limit is at least
\* len(S), and len(S) elements have been removed by one pop_n(len(S)) or by
\* len(S) calls of pop, the removed elements are exactly S in order, every
\* call returned Ok and the queue is empty.
C1_RoundTrip ==
    RTDone => /\ rt_out = rt_src
              /\ rt_ok
              /\ backing = <<>>

C1_Witness ==
    /\ RTDone
    /\ Len(rt_src) = MaxRT
    /\ rt_src[1] # rt_src[MaxRT]
    /\ rt_out = rt_src

\* C2: pop_n(n) on a queue of length L returns the first k = min(L, n)
\* elements in order, as Ok when k = n and as Err when L < n, and leaves the
\* elements from index k onwards, in order, at the front of the queue.
C2_PopN ==
    op.name = "pop_n" =>
        LET L == Len(pre.backing)
            k == IF L <= op.n THEN L ELSE op.n
        IN  /\ Len(ret.elems) = k
            /\ \A i \in 1..k : ret.elems[i] = pre.backing[i]
            /\ ret.kind = (IF L < op.n THEN "Err" ELSE "Ok")
            /\ Len(backing) = L - k
            /\ \A i \in 1..(L - k) : backing[i] = pre.backing[k + i]

C2_Witness ==
    /\ op.name = "pop_n"
    /\ op.n = 2
    /\ ret.kind = "Ok"
    /\ ret.elems[1] # ret.elems[2]
    /\ Len(backing) = 2
    /\ backing[1] # backing[2]

\* C3: limit invariant.  While the limit of a queue is not changed after its
\* construction, its length never exceeds its limit, whatever push, push_n,
\* push_from, push_in_place, pop, pop_n, pop_into and drop_n calls are made.
C3_LimitInvariant == Len(backing) <= limit

C3_Witness ==
    /\ op.name = "push_from"
    /\ ret.kind = "Err"
    /\ Len(op.elems) = 2
    /\ ret.n = 1
    /\ Len(backing) = limit

\* C4: push_from(src) with m = len(src) and r = remaining() appends the first
\* min(r, m) elements of src in order after the unchanged contents, and returns
\* Ok when m <= r and else Err(r), the count appended.
C4_PushFrom ==
    op.name = "push_from" =>
        LET m == Len(op.elems)
            r == RoomBefore
            k == IF r <= m THEN r ELSE m
        IN  /\ Len(backing) = Len(pre.backing) + k
            /\ \A i \in 1..Len(pre.backing) : backing[i] = pre.backing[i]
            /\ \A i \in 1..k : backing[Len(pre.backing) + i] = op.elems[i]
            /\ m <= r => ret.kind = "Ok"
            /\ m > r => ret.kind = "Err" /\ ret.n = r

C4_Witness ==
    /\ op.name = "push_from"
    /\ ret.kind = "Err"
    /\ ret.n = 1
    /\ Len(op.elems) = 2
    /\ op.elems[1] # op.elems[2]
    /\ Len(pre.backing) >= 1

\* C5: push_n(v) with r = remaining() appends the first min(r, len(v)) elements
\* of v in order and returns Ok when len(v) <= r, else Err(rest) where rest is
\* the suffix v[r..]: the elements appended followed by rest are v.
C5_PushN ==
    op.name = "push_n" =>
        LET v == op.elems
            r == RoomBefore
            k == IF r <= Len(v) THEN r ELSE Len(v)
            appended == SubSeq(backing, Len(pre.backing) + 1, Len(backing))
        IN  /\ Len(backing) = Len(pre.backing) + k
            /\ SubSeq(backing, 1, Len(pre.backing)) = pre.backing
            /\ \A i \in 1..k : appended[i] = v[i]
            /\ Len(v) <= r => ret.kind = "Ok" /\ ret.elems = <<>>
            /\ Len(v) > r =>
                  /\ ret.kind = "Err"
                  /\ Len(ret.elems) = Len(v) - r
                  /\ \A i \in 1..(Len(v) - r) : ret.elems[i] = v[r + i]
            /\ appended \o ret.elems = v

C5_Witness ==
    /\ op.name = "push_n"
    /\ ret.kind = "Err"
    /\ Len(op.elems) = 2
    /\ op.elems[1] # op.elems[2]
    /\ Len(ret.elems) = 1
    /\ Len(pre.backing) >= 1

\* C6: push(e) returns Ok and appends e as the last element exactly when the
\* length is below the limit; otherwise it returns Err(e) and leaves contents,
\* length and capacity as they were.
C6_Push ==
    op.name = "push" =>
        LET e == op.elems[1]
        IN  IF Len(pre.backing) < pre.limit
            THEN /\ ret.kind = "Ok"
                 /\ backing = Append(pre.backing, e)
            ELSE /\ ret.kind = "Err"
                 /\ ret.elems = <<e>>
                 /\ backing = pre.backing
                 /\ capacity = pre.capacity

C6_Witness ==
    /\ op.name = "push"
    /\ ret.kind = "Err"
    /\ Len(pre.backing) = pre.limit
    /\ pre.capacity = Len(pre.backing)

\* C7: pop() on an empty queue returns Err and leaves contents, length,
\* capacity, limit and shrink mode unchanged; on a non-empty queue it returns
\* Ok(the element at index 0) and the other elements move down by one index.
C7_Pop ==
    op.name = "pop" =>
        IF Len(pre.backing) = 0
        THEN /\ ret.kind = "Err"
             /\ backing = pre.backing
             /\ capacity = pre.capacity
             /\ limit = pre.limit
             /\ auto_shrink_mode = pre.auto_shrink_mode
        ELSE /\ ret.kind = "Ok"
             /\ ret.elems = <<pre.backing[1]>>
             /\ Len(backing) = Len(pre.backing) - 1
             /\ \A i \in 1..Len(backing) : backing[i] = pre.backing[i + 1]

C7_Witness ==
    /\ op.name = "pop"
    /\ ret.kind = "Err"
    /\ pre.capacity > 0
    /\ pre.auto_shrink_mode = "Aggressive"

\* C8: pop_into(dst) on a queue of length L moves the first k = min(L, len(dst))
\* elements into dst[0..k) in order, leaves dst[k..] as it was and the queue
\* with its elements from index k onwards, and returns Ok when k = len(dst) and
\* Err(k) otherwise.
C8_PopInto ==
    op.name = "pop_into" =>
        LET dst == op.elems
            L == Len(pre.backing)
            k == IF L <= Len(dst) THEN L ELSE Len(dst)
        IN  /\ Len(ret.dst) = Len(dst)
            /\ \A i \in 1..k : ret.dst[i] = pre.backing[i]
            /\ \A i \in (k + 1)..Len(dst) : ret.dst[i] = dst[i]
            /\ Len(backing) = L - k
            /\ \A i \in 1..(L - k) : backing[i] = pre.backing[k + i]
            /\ k = Len(dst) => ret.kind = "Ok"
            /\ k # Len(dst) => ret.kind = "Err" /\ ret.n = k

C8_Witness ==
    /\ op.name = "pop_into"
    /\ ret.kind = "Err"
    /\ ret.n = 1
    /\ Len(op.elems) = 2
    /\ op.elems[2] # pre.backing[1]
    /\ op.elems[1] # pre.backing[1]

\* C9: drop_n(n) on a queue of length L removes the first k = min(L, n)
\* elements, leaves the elements from index k onwards in order at the front,
\* and returns Ok when k = n and Err(k) otherwise.
C9_DropN ==
    op.name = "drop_n" =>
        LET L == Len(pre.backing)
            k == IF L <= op.n THEN L ELSE op.n
        IN  /\ Len(backing) = L - k
            /\ \A i \in 1..(L - k) : backing[i] = pre.backing[k + i]
            /\ ret.elems = <<>>
            /\ k = op.n => ret.kind = "Ok"
            /\ k # op.n => ret.kind = "Err" /\ ret.n = k

C9_Witness ==
    /\ op.name = "drop_n"
    /\ op.n = 2
    /\ ret.kind = "Ok"
    /\ Len(backing) = 2
    /\ backing[1] # backing[2]
    /\ pre.backing[1] # pre.backing[3]

\* C10: set_limit(l) with 0 < l < length is accepted and changes only the
\* limit: contents, length and capacity stay, remaining() is 0.  After it,
\* while the length is at least l every append accepts no element, and once
\* removals have brought the length below l an append of m elements by push,
\* push_n or push_from accepts l - length of them (all m when m is smaller),
\* and push_in_place never brings the length above l.
C10_LoweredLimit ==
    /\ op.name = "set_limit" =>
          /\ ret.kind = "Ok"
          /\ limit = op.n
          /\ backing = pre.backing
          /\ capacity = pre.capacity
          /\ auto_shrink_mode = pre.auto_shrink_mode
          /\ remaining(Q) = 0
    /\ (lowered /\ op.name \in Appends /\ Len(pre.backing) >= pre.limit) =>
          backing = pre.backing
    /\ (lowered /\ op.name \in ClippingAppends /\ Len(pre.backing) < pre.limit) =>
          LET room == pre.limit - Len(pre.backing)
              m == Len(op.elems)
          IN  /\ m >= room => Len(backing) = Len(pre.backing) + room
              /\ m < room => Len(backing) = Len(pre.backing) + m
              /\ \A i \in 1..Len(backing) :
                    backing[i] = IF i <= Len(pre.backing) THEN pre.backing[i]
                                 ELSE op.elems[i - Len(pre.backing)]
    /\ (lowered /\ op.name = "push_in_place" /\ Len(pre.backing) < pre.limit) =>
          Len(backing) <= pre.limit
    /\ (lowered /\ op.name # "set_limit") => limit = pre.limit

C10_Witness ==
    /\ lowered
    /\ op.name = "push_from"
    /\ ret.kind = "Err"
    /\ Len(pre.backing) < pre.limit
    /\ Len(op.elems) > pre.limit - Len(pre.backing)
    /\ Len(backing) = limit
    /\ limit >= 2

\* C11: remaining() returns limit - length when the limit is at least the
\* length and 0 when the length is above the limit; the value is never below
\* zero nor above usize::MAX, and the call changes nothing.
C11_Remaining ==
    op.name = "remaining" =>
        /\ ret.kind = "Ok"
        /\ limit >= Len(backing) => ret.n = limit - Len(backing)
        /\ Len(backing) > limit => ret.n = 0
        /\ ret.n \in 0..USIZE_MAX
        /\ Q = pre

C11_Witness ==
    /\ op.name = "remaining"
    /\ Len(backing) > limit
    /\ ret.n = 0

\* C12: a limit of 0 is refused.  with_limit(0) panics and makes no queue;
\* set_limit(0) on an existing queue panics and leaves the queue, its previous
\* limit included, as it was.
C12_ZeroLimit ==
    /\ (op.name = "with_limit" /\ op.n = 0) =>
          /\ ret.kind = "Panic"
          /\ with_limit(op.n).q = NoQueue
          /\ Q = pre
    /\ (op.name = "set_limit" /\ op.n = 0) =>
          /\ ret.kind = "Panic"
          /\ limit = pre.limit
          /\ Q = pre

C12_Witness ==
    /\ op.name = "set_limit"
    /\ op.n = 0
    /\ ret.kind = "Panic"
    /\ limit \in 1..MaxLen
    /\ Len(backing) > 0

\* C13: every constructor that takes no limit argument (new, with_capacity,
\* From<Vec<T>>, From<&[T]> and Default::default) returns a queue whose limit
\* is usize::MAX, so that remaining() is usize::MAX - length.
C13_NoLimitConstructors ==
    op.name \in {"new", "with_capacity", "from_vec", "from_slice", "default"} =>
        /\ limit = USIZE_MAX
        /\ remaining(Q) = USIZE_MAX - Len(backing)

\* the calls that remove elements from the front
Removals == {"pop", "pop_n", "pop_into", "drop_n"}

\* C14: in mode Opportunistic, after each removal that leaves the length L in
\* a vector of capacity C, the capacity is L when L > 4 and (L <= C div 2 or
\* C > limit), and is C otherwise: queues of at most 4 elements never shrink.
\* Of a queue of 14 elements and capacity 14, drop_n(6) leaves the capacity 14,
\* and the pop() after it leaves length 7 and capacity 7.
C14_Opportunistic ==
    /\ (op.name \in Removals /\ pre.auto_shrink_mode = "Opportunistic") =>
          LET L == Len(backing)
              C == pre.capacity
          IN  /\ ret.kind # "Panic"
              /\ (L > 4 /\ (L <= C \div 2 \/ C > limit)) => capacity = L
              /\ ~(L > 4 /\ (L <= C \div 2 \/ C > limit)) => capacity = C
              /\ L <= 4 => capacity = C
    /\ (op.name = "drop_n" /\ op.n = 6 /\ pre.auto_shrink_mode = "Opportunistic"
          /\ Len(pre.backing) = 14 /\ pre.capacity = 14 /\ limit = USIZE_MAX) =>
          Len(backing) = 8 /\ capacity = 14
    /\ (op.name = "pop" /\ pre.auto_shrink_mode = "Opportunistic"
          /\ Len(pre.backing) = 8 /\ pre.capacity = 14 /\ limit = USIZE_MAX) =>
          Len(backing) = 7 /\ capacity = 7

C14_Witness ==
    /\ op.name = "pop"
    /\ pre.auto_shrink_mode = "Opportunistic"
    /\ Len(pre.backing) = 8
    /\ pre.capacity = 14
    /\ limit = USIZE_MAX
    /\ Len(backing) = 7
    /\ capacity = 7

\* C15: in mode Aggressive, after every pop that returns an element and after
\* every pop_n, pop_into and drop_n call the capacity equals the length:
\* reserved() is 0.
C15_Aggressive ==
    (op.name \in Removals /\ pre.auto_shrink_mode = "Aggressive"
        /\ (op.name = "pop" => ret.kind = "Ok")) =>
        /\ ret.kind # "Panic"
        /\ capacity = Len(backing)
        /\ reserved(Q) = 0

C15_Witness ==
    /\ op.name = "drop_n"
    /\ op.n = 6
    /\ pre.auto_shrink_mode = "Aggressive"
    /\ Len(pre.backing) = 14
    /\ pre.capacity = 14
    /\ Len(backing) = 8
    /\ capacity = 8

\* C16: while the mode is Disabled, no call other than shrink_opportunistic
\* and shrink_to_fit lowers the capacity: not pop, pop_n, pop_into, drop_n, nor
\* any append, push_in_place included.
C16_Disabled ==
    (pre.auto_shrink_mode = "Disabled"
        /\ op.name \notin {"shrink_opportunistic", "shrink_to_fit"}) =>
        capacity >= pre.capacity

\* the vector can hold the n slots of the push_in_place call
SlotsFit == Len(pre.backing) + op.n <= ISIZE_MAX

\* C17: push_in_place(n, f) with length + n <= limit calls f exactly once, on
\* exactly n slots that all hold T::default().  When f returns Ok(k) with
\* 0 <= k <= n the call returns Ok(k), the length has grown by k, the earlier
\* elements are unchanged and the k new elements are the first k slots as f
\* left them.  (n is a count of slots the vector can allocate.)
C17_PushInPlace ==
    (op.name = "push_in_place" /\ Len(pre.backing) + op.n <= pre.limit /\ SlotsFit) =>
        LET L == Len(pre.backing)
            k == op.fn_n
        IN  /\ Len(ret.dst) = 1
            /\ Len(ret.dst[1]) = op.n
            /\ \A i \in 1..op.n : ret.dst[1][i] = DefaultElem
            /\ (op.fn_kind = "Ok" /\ k <= op.n) =>
                  /\ ret.kind = "Ok"
                  /\ ret.n = k
                  /\ Len(backing) = L + k
                  /\ \A i \in 1..L : backing[i] = pre.backing[i]
                  /\ \A i \in 1..k : backing[L + i] = op.elems[i]

C17_Witness ==
    /\ op.name = "push_in_place"
    /\ op.n = 2
    /\ op.fn_kind = "Ok"
    /\ op.fn_n = 1
    /\ op.elems[1] # DefaultElem
    /\ Len(pre.backing) >= 1
    /\ Len(backing) = Len(pre.backing) + 1
    /\ ret.kind = "Ok"

\* C18: when the callback of push_in_place returns an error, push_in_place
\* returns that same error and the length and the contents of the queue are
\* exactly as before the call.
C18_PushInPlaceErr ==
    (op.name = "push_in_place" /\ Len(pre.backing) + op.n <= pre.limit /\ SlotsFit
        /\ op.fn_kind = "Err") =>
        /\ ret.kind = "Err"
        /\ ret.n = op.fn_n
        /\ Len(backing) = Len(pre.backing)
        /\ backing = pre.backing

C18_Witness ==
    /\ op.name = "push_in_place"
    /\ op.n = 2
    /\ op.fn_kind = "Err"
    /\ op.fn_n = 1
    /\ op.elems[1] # DefaultElem
    /\ Len(pre.backing) >= 1
    /\ ret.kind = "Err"
    /\ ret.n = 1

\* C19: push_in_place(n, f) with length + n > limit panics, before f is called
\* and before any slot is reserved: contents, length and capacity are as they
\* were.
C19_PushInPlaceOverLimit ==
    (op.name = "push_in_place" /\ Len(pre.backing) + op.n > pre.limit) =>
        /\ ret.kind = "Panic"
        /\ ret.dst = <<>>
        /\ backing = pre.backing
        /\ capacity = pre.capacity
        /\ Q = pre

C19_Witness ==
    /\ op.name = "push_in_place"
    /\ op.n = 2
    /\ Len(pre.backing) + 1 = pre.limit
    /\ pre.capacity = Len(pre.backing)
    /\ ret.kind = "Panic"

\* C20: when the callback of push_in_place returns Ok(k) with k > n,
\* push_in_place panics: it does not return Ok(k), and the queue has not grown
\* by k.
C20_PushInPlaceOverCount ==
    (op.name = "push_in_place" /\ Len(pre.backing) + op.n <= pre.limit /\ SlotsFit
        /\ op.fn_kind = "Ok" /\ op.fn_n > op.n) =>
        /\ ret.kind = "Panic"
        /\ Len(ret.dst) = 1
        /\ Len(backing) # Len(pre.backing) + op.fn_n

C20_Witness ==
    /\ op.name = "push_in_place"
    /\ op.n = 1
    /\ op.fn_kind = "Ok"
    /\ op.fn_n = 2
    /\ Len(pre.backing) + 2 <= pre.limit
    /\ ret.kind = "Panic"

\* limit - capacity before the call where that is not negative, else 0
CapacityRoomBefore ==
    IF pre.limit >= pre.capacity THEN pre.limit - pre.capacity ELSE 0

C22_ReserveNWithinRemaining ==
    (op.name = "reserve_n" /\ op.n <= remaining(pre)) => ret.kind = "Ok"

\* C23: reserve_n(n) does nothing when reserved() >= n holds already: the
\* capacity, and so reserved(), is after the call what it was before.
C23_ReserveNNoop ==
    (op.name = "reserve_n" /\ reserved(pre) >= op.n) =>
        /\ capacity = pre.capacity
        /\ reserved(Q) = reserved(pre)
        /\ Q = pre

C23_Witness ==
    /\ op.name = "reserve_n"
    /\ op.n = 1
    /\ reserved(pre) = 2
    /\ Len(backing) >= 1
    /\ capacity = pre.capacity

\* C24: read(buf) on a queue of bytes never returns an error: it returns
\* Ok(k) with k = min(length, len(buf)), buf[0..k) holds the former first k
\* bytes of the queue in order, and the queue holds its former bytes from
\* index k onwards.
C24_Read ==
    op.name = "read" =>
        LET buf == op.elems
            L == Len(pre.backing)
            k == IF L <= Len(buf) THEN L ELSE Len(buf)
        IN  /\ ret.kind = "Ok"
            /\ ret.n = k
            /\ (L = 0 \/ Len(buf) = 0) => ret.n = 0
            /\ Len(ret.dst) = Len(buf)
            /\ \A i \in 1..k : ret.dst[i] = pre.backing[i]
            /\ Len(backing) = L - k
            /\ \A i \in 1..(L - k) : backing[i] = pre.backing[k + i]

C24_Witness ==
    /\ op.name = "read"
    /\ Len(op.elems) = 2
    /\ Len(pre.backing) = 1
    /\ op.elems[1] # pre.backing[1]
    /\ ret.kind = "Ok"
    /\ ret.n = 1
    /\ backing = <<>>

\* C25: write(buf) on a queue of bytes never returns an error: it returns
\* Ok(k) with k = min(remaining(), len(buf)), 0 when the limit is reached,
\* and has appended exactly the first k bytes of buf in order.  flush()
\* returns Ok and changes nothing.
C25_WriteFlush ==
    /\ op.name = "write" =>
          LET buf == op.elems
              r == RoomBefore
              k == IF r <= Len(buf) THEN r ELSE Len(buf)
          IN  /\ ret.kind = "Ok"
              /\ ret.n = k
              /\ Len(pre.backing) >= pre.limit => ret.n = 0
              /\ Len(backing) = Len(pre.backing) + k
              /\ \A i \in 1..Len(pre.backing) : backing[i] = pre.backing[i]
              /\ \A i \in 1..k : backing[Len(pre.backing) + i] = buf[i]
    /\ op.name = "flush" =>
          /\ ret.kind = "Ok"
          /\ Q = pre

C25_Witness ==
    /\ op.name = "write"
    /\ Len(op.elems) = 2
    /\ op.elems[1] # op.elems[2]
    /\ Len(pre.backing) >= 1
    /\ ret.kind = "Ok"
    /\ ret.n = 1
    /\ Len(backing) = limit

\* the number of slots of s that hold v
Occurrences(s, v) == Cardinality({i \in 1..Len(s) : s[i] = v})

\* the element a slot held before the call: a slot of the queue, or a slot of
\* the buffer the caller passed
SlotElem(slot) ==
    IF slot[1] = "vec" THEN pre.backing[slot[2]] ELSE op.elems[slot[2]]

\* how often the last call destroyed the element of the slot
TimesReleased(slot) ==
    Cardinality({i \in 1..Len(ret.released) : ret.released[i] = slot})

\* how many references to the sentinel v the last call destroyed
ReleasedCount(v) ==
    Cardinality({i \in 1..Len(ret.released) : SlotElem(ret.released[i]) = v})

\* the references to the sentinel v held by the queue and by the caller's
\* buffer before a removal, and by the queue, the returned vector and the
\* caller's buffer after it
OwnersBefore(v) == Occurrences(pre.backing, v) + Occurrences(op.elems, v)

OwnersAfter(v) ==
    Occurrences(backing, v) + Occurrences(ret.elems, v) + Occurrences(ret.dst, v)

\* the reference count of every sentinel matches the references that exist:
\* none was destroyed twice or destroyed while still held, none was lost
Balanced == \A v \in Elems : OwnersBefore(v) - ReleasedCount(v) = OwnersAfter(v)

\* C26: strategy equivalence.  Every pop_n, pop_into and drop_n call of a run,
\* whatever appends and other calls came before it, gives under mem::usafe
\* and under mem::safe the same returned value, the same destination
\* contents and the same queue: the build that ran it did what the other
\* build does from the same queue.
C26_StrategyEquivalence ==
    /\ op.name = "pop_n" =>
          /\ pop_n(TRUE, pre, op.n) = pop_n(FALSE, pre, op.n)
          /\ Res(Q, ret) = pop_n(~unsafe_fast_code, pre, op.n)
    /\ op.name = "pop_into" =>
          /\ pop_into(TRUE, pre, op.elems) = pop_into(FALSE, pre, op.elems)
          /\ Res(Q, ret) = pop_into(~unsafe_fast_code, pre, op.elems)
    /\ op.name = "drop_n" =>
          /\ drop_n(TRUE, pre, op.n) = drop_n(FALSE, pre, op.n)
          /\ Res(Q, ret) = drop_n(~unsafe_fast_code, pre, op.n)

C26_Witness ==
    /\ unsafe_fast_code
    /\ op.name = "pop_into"
    /\ ret.kind = "Ok"
    /\ Len(op.elems) = 2
    /\ ret.dst[1] # ret.dst[2]
    /\ Len(backing) = 2
    /\ backing[1] # backing[2]
    /\ backing[1] # pre.backing[1]

\* C27: drop_n(n) under the raw-memory strategy destroys each of the first
\* min(length, n) elements exactly once and none of the elements that stay
\* in the queue, for every n and every length: the counts of the sentinels
\* removed fall by one, the counts of those that remain are unchanged.
C27_DropNReleases ==
    (op.name = "drop_n" /\ unsafe_fast_code) =>
        LET L == Len(pre.backing)
            k == IF L <= op.n THEN L ELSE op.n
        IN  /\ Len(ret.released) = k
            /\ \A i \in 1..L : TimesReleased(<<"vec", i>>) = (IF i <= k THEN 1 ELSE 0)
            /\ \A v \in Elems : ReleasedCount(v) = Occurrences(SliceTo(pre.backing, k), v)
            /\ Balanced

C27_Witness ==
    /\ op.name = "drop_n"
    /\ unsafe_fast_code
    /\ op.n = 2
    /\ Len(pre.backing) = 3
    /\ pre.backing[1] # pre.backing[2]
    /\ Len(ret.released) = 2
    /\ Len(backing) = 1

\* C28: pop_into(dst) destroys each prior occupant of the filled part
\* dst[0..k), k = min(length, len(dst)), exactly once, no prior occupant of
\* dst[k..], and none of the elements moved out of the queue or left in it:
\* the counts of the overwritten sentinels fall by one, the counts of all
\* queue elements are unchanged.
C28_PopIntoReleases ==
    op.name = "pop_into" =>
        LET L == Len(pre.backing)
            k == IF L <= Len(op.elems) THEN L ELSE Len(op.elems)
        IN  /\ Len(ret.released) = k
            /\ \A i \in 1..Len(op.elems) :
                  TimesReleased(<<"dst", i>>) = (IF i <= k THEN 1 ELSE 0)
            /\ \A i \in 1..L : TimesReleased(<<"vec", i>>) = 0
            /\ \A v \in Elems : ReleasedCount(v) = Occurrences(SliceTo(op.elems, k), v)
            /\ Balanced

C28_Witness ==
    /\ op.name = "pop_into"
    /\ unsafe_fast_code
    /\ Len(op.elems) = 2
    /\ Len(pre.backing) = 1
    /\ op.elems[1] # pre.backing[1]
    /\ ret.released = << <<"dst", 1>> >>

\* C29: pop_n moves the elements out without destroying any: after pop_n(n)
\* every element of the original queue is held by exactly one of the
\* returned vector and the queue, and the counts of all sentinels are
\* unchanged.
C29_PopNOwnership ==
    op.name = "pop_n" =>
        /\ ret.released = <<>>
        /\ ret.elems \o backing = pre.backing
        /\ \A v \in Elems : ReleasedCount(v) = 0
        /\ Balanced

C29_Witness ==
    /\ op.name = "pop_n"
    /\ unsafe_fast_code
    /\ op.n = 2
    /\ Len(pre.backing) = 3
    /\ Len(ret.elems) = 2
    /\ ret.elems[1] # ret.elems[2]
    /\ Len(backing) = 1

\* C30: peek() and peek_n(n) never change the queue.  peek() returns the
\* element at index 0, or None when the queue is empty; peek_n(n) returns
\* Ok(the first n elements) when n <= length and Err(all the elements) when
\* n > length.
C30_Peek ==
    /\ op.name = "peek" =>
          /\ Q = pre
          /\ Len(backing) = 0 => ret.kind = "None"
          /\ Len(backing) > 0 => ret.kind = "Some" /\ ret.elems = <<backing[1]>>
    /\ op.name = "peek_n" =>
          /\ Q = pre
          /\ op.n <= Len(backing) =>
                /\ ret.kind = "Ok"
                /\ Len(ret.elems) = op.n
                /\ \A i \in 1..op.n : ret.elems[i] = backing[i]
          /\ op.n > Len(backing) =>
                /\ ret.kind = "Err"
                /\ ret.elems = backing

C30_Witness ==
    /\ op.name = "peek_n"
    /\ op.n = 3
    /\ ret.kind = "Err"
    /\ Len(ret.elems) = 2
    /\ ret.elems[1] # ret.elems[2]
    /\ backing = pre.backing

\* the range [a, b) a selector stands for on a queue of length L: start and
\* end as written, end + 1 for an inclusive end, 0 for an omitted start and
\* L for an omitted end
SelectedStart == IF op.fn_kind \in {"Range", "RangeFrom", "RangeInclusive"} THEN op.n ELSE 0

SelectedEnd ==
    CASE op.fn_kind \in {"Range", "RangeTo"} -> op.fn_n
      [] op.fn_kind \in {"RangeInclusive", "RangeToInclusive"} -> op.fn_n + 1
      [] OTHER -> Len(pre.backing)

\* C31: on a queue of length L the selectors a..b, a..=b-1, ..b, ..=b-1, a..
\* and .. select exactly the elements at the indices [a, b), with a = 0 and
\* b = L where omitted; a selector whose end exceeds L or whose start exceeds
\* its end is a fault.  Stated of both implementations of range indexing,
\* index_impl! of queue.rs and impl_range_index! of lib.rs.
C31_RangeSelection ==
    op.name \in {"index", "lib_index"} =>
        /\ Q = pre
        /\ IF SelectedEnd > Len(pre.backing) \/ SelectedStart > SelectedEnd
           THEN ret.kind = "Panic"
           ELSE /\ ret.kind = "Slice"
                /\ ret.n = SelectedStart
                /\ ret.elems = SubSeq(pre.backing, SelectedStart + 1, SelectedEnd)

\* the same of index_impl! of queue.rs alone
C31_QueueRsOnly == op.name = "lib_index" \/ C31_RangeSelection

\* the calls that make a queue
Constructors == {"new", "with_capacity", "with_limit", "from_vec", "from_slice", "default"}

\* C32 as stated: length <= limit in every reachable state, over all
\* sequences of operations including set_limit and all constructors.
C32_LengthWithinLimit == Len(backing) <= limit

\* C32, amended: every constructor returns a queue with length <= limit, and
\* every operation but set_limit keeps length <= limit once it holds.
\* set_limit(l) with 0 < l changes the limit alone, so it leaves
\* length > limit when l < length; while length > limit no operation makes
\* the queue longer or changes the limit, until removals or a further
\* set_limit bring length <= limit back.
C32_LengthWithinLimitUnlessLowered ==
    /\ op.name \in Constructors /\ ret.kind # "Panic" => Len(backing) <= limit
    /\ op.name # "set_limit" =>
          /\ Len(pre.backing) <= pre.limit => Len(backing) <= limit
          /\ Len(pre.backing) > pre.limit /\ op.name \notin Constructors =>
                /\ Len(backing) <= Len(pre.backing)
                /\ limit = pre.limit
    /\ op.name = "set_limit" =>
          /\ backing = pre.backing
          /\ limit = IF op.n > 0 THEN op.n ELSE pre.limit
          /\ 0 < op.n /\ op.n < Len(pre.backing) => Len(backing) > limit

\* an append to a queue whose limit was set below its length adds nothing
C32_Witness ==
    /\ op.name = "push_from"
    /\ Len(op.elems) = 2
    /\ Len(pre.backing) > pre.limit
    /\ ret.kind = "Err"
    /\ ret.n = 0
    /\ backing = pre.backing

\* C33: the limit is positive in every reachable state: no constructor (new,
\* with_capacity, with_limit, From<Vec<T>>, From<&[T]>, the derived
\* Default::default, clone) and no later operation produces a queue whose
\* limit is 0 without a fault.
C33_LimitPositive == limit > 0

\* C34: a fault inside push_in_place leaves the buffer fully rolled back: when
\* the callback returns Ok(k) with k > n, the length and the contents of the
\* queue after the fault are those before the call; none of the n reserved
\* default slots remains a live element.
C34_PushInPlaceRollback ==
    (op.name = "push_in_place" /\ Len(pre.backing) + op.n <= pre.limit /\ SlotsFit
        /\ op.fn_kind = "Ok" /\ op.fn_n > op.n) =>
        /\ ret.kind = "Panic"
        /\ backing = pre.backing

\* C35: in lib.rs, discard_n(n) under the raw-memory strategy
\* (unsafe_fast_code) releases exactly the first min(length, n) elements,
\* each exactly once, and none of the length - min(length, n) elements that
\* stay in the queue, for every n and every length.
C35_LibDiscardNReleases ==
    (op.name = "lib_discard_n" /\ unsafe_fast_code) =>
        LET to_discard == Min(Len(pre.backing), op.n)
        IN  /\ Len(ret.released) = to_discard
            /\ {ret.released[i] : i \in 1..Len(ret.released)}
                   = {<<"vec", i>> : i \in 1..to_discard}
            /\ backing = SliceFrom(pre.backing, to_discard)

\* C36: in lib.rs, pop_n(n) gives the same outcome under the raw-memory
\* branch (unsafe_fast_code) and under the safe branch for every n and every
\* length: the call that was made returned what the other branch returns on
\* the same queue and left the same elements, capacity and limit; for
\* n > length both return Err with all the elements and leave the queue empty.
C36_LibPopNEquivalence ==
    op.name = "lib_pop_n" =>
        LET other == lib_pop_n(~unsafe_fast_code, pre, op.n)
        IN  /\ ret = other.ret
            /\ backing = other.q.backing
            /\ capacity = other.q.capacity
            /\ limit = other.q.limit
            /\ op.n > Len(pre.backing) =>
                  /\ ret.kind = "Err"
                  /\ ret.elems = pre.backing
                  /\ backing = <<>>

\* C37: in lib.rs, push_in_place under the raw-memory strategy never reads
\* or releases the content of a slot at an index >= length: putting the
\* default values into the n reserved slots releases no prior occupant of
\* those slots, in particular not the stale copy of an element that an
\* earlier pop_n, pop_into or discard_n moved out or released.
C37_LibPushInPlaceRawSlots ==
    (op.name = "lib_push_in_place" /\ unsafe_fast_code) =>
        \A i \in 1..Len(ret.released) : ret.released[i][1] # "raw"

\* the calls that act on the capacity, the limit or the shrink mode alone
CapacityCalls == {"shrink_opportunistic", "shrink_to_fit", "reserve_n", "set_auto_shrink_mode"}

C39_Clone ==
    op.name = "clone" =>
        /\ backing = pre.backing
        /\ limit = pre.limit
        /\ auto_shrink_mode = pre.auto_shrink_mode
        /\ \A n \in 0..(MaxLen + 1) :
              pop_n(unsafe_fast_code, Q, n).ret = pop_n(unsafe_fast_code, pre, n).ret
        /\ \A src \in Args : push_from(Q, src).ret = push_from(pre, src).ret

====
